---- MODULE Spec2Model ----
(***************************************************************************)
(* did:jwk identifiers (src/did/jwk.go): construction of an identifier     *)
(* from a JWK public key, expansion of an identifier into a DID document,  *)
(* and the resolver built on the expansion.                                *)
(*                                                                         *)
(* A Go string is a sequence of one-character strings; a byte slice is a   *)
(* sequence of numbers in 0..255.  A nil error is the empty sequence, a    *)
(* wrapped error the sequence of its messages, outermost first.            *)
(***************************************************************************)
EXTENDS Integers, Sequences, FiniteSets, TLC

VARIABLES pc, op, cur, key, ret, kt, pubKey, privKey, pubKeyJWK, invoked

vars == <<pc, op, cur, key, ret, kt, pubKey, privKey, pubKeyJWK, invoked>>

\* Number of distinct key-material values a generated key coordinate takes.
NumMaterial == 2

\* Longest payload enumerated over FuzzAlphabet for hand-supplied identifiers.
MaxFuzzLen == 3

----------------------------------------------------------------------------
(* Characters and bytes *)

\* The characters of codes 32..126 in order; code 96, the grave accent, is
\* written as the token "GRAVE".
Printable ==
  <<" ", "!", "\"", "#", "$", "%", "&", "'", "(", ")", "*", "+", ",", "-", ".", "/",
    "0", "1", "2", "3", "4", "5", "6", "7", "8", "9", ":", ";", "<", "=", ">", "?",
    "@", "A", "B", "C", "D", "E", "F", "G", "H", "I", "J", "K", "L", "M", "N", "O",
    "P", "Q", "R", "S", "T", "U", "V", "W", "X", "Y", "Z", "[", "\\", "]", "^", "_",
    "GRAVE", "a", "b", "c", "d", "e", "f", "g", "h", "i", "j", "k", "l", "m", "n", "o",
    "p", "q", "r", "s", "t", "u", "v", "w", "x", "y", "z", "{", "|", "}", "~">>


\* []byte(s): the ASCII code of each character (codes 32..126, and 9, 10, 13).
ByteOf(c) ==
  IF c = "\t" THEN 9
  ELSE IF c = "\n" THEN 10
  ELSE IF c = "\r" THEN 13
  ELSE 31 + (CHOOSE i \in 1..Len(Printable) : Printable[i] = c)

\* string(b) for one byte; a byte outside ASCII text is the token "NP",
\* which equals no character.
CharOf(b) ==
  IF b = 9 THEN "\t"
  ELSE IF b = 10 THEN "\n"
  ELSE IF b = 13 THEN "\r"
  ELSE IF b >= 32 /\ b <= 126 THEN Printable[b - 31]
  ELSE "NP"

Bytes(s) == [i \in 1..Len(s) |-> ByteOf(s[i])]

Chars(bs) == [i \in 1..Len(bs) |-> CharOf(bs[i])]

\* strings.HasPrefix
HasPrefix(s, p) == Len(s) >= Len(p) /\ SubSeq(s, 1, Len(p)) = p

\* strings.CutPrefix
CutPrefix(s, p) ==
  IF HasPrefix(s, p)
  THEN [after |-> SubSeq(s, Len(p) + 1, Len(s)), found |-> TRUE]
  ELSE [after |-> s, found |-> FALSE]

----------------------------------------------------------------------------
(* base64.RawURLEncoding *)

encodeURL ==
  <<"A", "B", "C", "D", "E", "F", "G", "H", "I", "J", "K", "L", "M", "N", "O", "P",
    "Q", "R", "S", "T", "U", "V", "W", "X", "Y", "Z", "a", "b", "c", "d", "e", "f",
    "g", "h", "i", "j", "k", "l", "m", "n", "o", "p", "q", "r", "s", "t", "u", "v",
    "w", "x", "y", "z", "0", "1", "2", "3", "4", "5", "6", "7", "8", "9", "-", "_">>

B64Char(v) == encodeURL[v + 1]

B64Val(c) == (CHOOSE i \in 1..Len(encodeURL) : encodeURL[i] = c) - 1

InAlphabet(c) == \E i \in 1..Len(encodeURL) : encodeURL[i] = c

\* A faulty variant of EncodeToString: base64.URLEncoding, which pads with '='.
RECURSIVE EncodeToStringPadded(_)
EncodeToStringPadded(bs) ==
  IF Len(bs) = 0 THEN <<>>
  ELSE IF Len(bs) = 1 THEN
    <<B64Char(bs[1] \div 4), B64Char((bs[1] % 4) * 16), "=", "=">>
  ELSE IF Len(bs) = 2 THEN
    <<B64Char(bs[1] \div 4),
      B64Char((bs[1] % 4) * 16 + bs[2] \div 16),
      B64Char((bs[2] % 16) * 4), "=">>
  ELSE
    <<B64Char(bs[1] \div 4),
      B64Char((bs[1] % 4) * 16 + bs[2] \div 16),
      B64Char((bs[2] % 16) * 4 + bs[3] \div 64),
      B64Char(bs[3] % 64)>> \o EncodeToStringPadded(SubSeq(bs, 4, Len(bs)))

\* base64.RawURLEncoding.EncodeToString: three bytes give four characters,
\* a last group of one or two bytes gives two or three, no padding.
RECURSIVE EncodeToString(_)
EncodeToString(bs) ==
  IF Len(bs) = 0 THEN <<>>
  ELSE IF Len(bs) = 1 THEN
    <<B64Char(bs[1] \div 4), B64Char((bs[1] % 4) * 16)>>
  ELSE IF Len(bs) = 2 THEN
    <<B64Char(bs[1] \div 4),
      B64Char((bs[1] % 4) * 16 + bs[2] \div 16),
      B64Char((bs[2] % 16) * 4)>>
  ELSE
    <<B64Char(bs[1] \div 4),
      B64Char((bs[1] % 4) * 16 + bs[2] \div 16),
      B64Char((bs[2] % 16) * 4 + bs[3] \div 64),
      B64Char(bs[3] % 64)>> \o EncodeToString(SubSeq(bs, 4, Len(bs)))

\* The decoder skips carriage returns and line feeds.
StripNewlines(s) == SelectSeq(s, LAMBDA c : c # "\r" /\ c # "\n")

RECURSIVE DecodeQuanta(_)
DecodeQuanta(s) ==
  IF Len(s) = 0 THEN <<>>
  ELSE IF Len(s) = 2 THEN
    <<B64Val(s[1]) * 4 + B64Val(s[2]) \div 16>>
  ELSE IF Len(s) = 3 THEN
    <<B64Val(s[1]) * 4 + B64Val(s[2]) \div 16,
      (B64Val(s[2]) % 16) * 16 + B64Val(s[3]) \div 4>>
  ELSE
    <<B64Val(s[1]) * 4 + B64Val(s[2]) \div 16,
      (B64Val(s[2]) % 16) * 16 + B64Val(s[3]) \div 4,
      (B64Val(s[3]) % 4) * 64 + B64Val(s[4])>> \o DecodeQuanta(SubSeq(s, 5, Len(s)))

\* A faulty variant of DecodeString: every input decodes (to nothing when corrupt).
DecodeStringLax(s) ==
  LET t == StripNewlines(s) IN
  IF (\E i \in 1..Len(t) : ~InAlphabet(t[i])) \/ Len(t) % 4 = 1
  THEN [bytes |-> <<>>, err |-> <<>>]
  ELSE [bytes |-> DecodeQuanta(t), err |-> <<>>]

\* base64.RawURLEncoding.DecodeString: a character outside the alphabet
\* ('=' included) or a dangling single character is a CorruptInputError;
\* the unused low bits of a short last group are not checked (not Strict).
DecodeString(s) ==
  LET t == StripNewlines(s) IN
  IF (\E i \in 1..Len(t) : ~InAlphabet(t[i])) \/ Len(t) % 4 = 1
  THEN [bytes |-> <<>>, err |-> <<"illegal base64 data">>]
  ELSE [bytes |-> DecodeQuanta(t), err |-> <<>>]

----------------------------------------------------------------------------
(* JSON: the key object and its serialization *)

\* jwx.PublicKeyJWK: the key-object shape json.Unmarshal fills; every
\* field is a string and the zero value of a field is the empty string.
PublicKeyJWKFields ==
  << [f |-> "crv", name |-> <<"c", "r", "v">>],
     [f |-> "e",   name |-> <<"e">>],
     [f |-> "kty", name |-> <<"k", "t", "y">>],
     [f |-> "n",   name |-> <<"n">>],
     [f |-> "use", name |-> <<"u", "s", "e">>],
     [f |-> "x",   name |-> <<"x">>],
     [f |-> "y",   name |-> <<"y">>] >>

ZeroJWK ==
  [kty |-> <<>>, crv |-> <<>>, x |-> <<>>, y |-> <<>>, n |-> <<>>, e |-> <<>>, use |-> <<>>]

Quote(s) == <<"\"">> \o s \o <<"\"">>

RECURSIVE MarshalMembers(_, _, _)
MarshalMembers(k, i, first) ==
  IF i > Len(PublicKeyJWKFields) THEN <<>>
  ELSE LET fd == PublicKeyJWKFields[i] IN
       IF k[fd.f] = <<>> THEN MarshalMembers(k, i + 1, first)
       ELSE (IF first THEN <<>> ELSE <<",">>)
            \o Quote(fd.name) \o <<":">> \o Quote(k[fd.f])
            \o MarshalMembers(k, i + 1, FALSE)

\* A faulty variant of Marshal: the use member is left out of the serialization.
MarshalNoUse(k) ==
  IF k.kind = "bad" THEN [bytes |-> <<>>, err |-> <<"json: error calling MarshalJSON">>]
  ELSE IF k.kind = "nil" THEN [bytes |-> Bytes(<<"n", "u", "l", "l">>), err |-> <<>>]
  ELSE [bytes |-> Bytes(<<"{">> \o MarshalMembers([k EXCEPT !.use = <<>>], 1, TRUE) \o <<"}">>),
        err |-> <<>>]

\* json.Marshal of a jwk.Key: an object of the members that are set, in
\* the order of their names; a nil interface value marshals to null; a
\* key whose MarshalJSON fails gives the error.
Marshal(k) ==
  IF k.kind = "bad" THEN [bytes |-> <<>>, err |-> <<"json: error calling MarshalJSON">>]
  ELSE IF k.kind = "nil" THEN [bytes |-> Bytes(<<"n", "u", "l", "l">>), err |-> <<>>]
  ELSE [bytes |-> Bytes(<<"{">> \o MarshalMembers(k, 1, TRUE) \o <<"}">>), err |-> <<>>]

IsWS(c) == c \in {" ", "\t", "\n", "\r"}

IsDigit(c) == c \in {"0", "1", "2", "3", "4", "5", "6", "7", "8", "9"}

RECURSIVE SkipWS(_, _)
SkipWS(s, i) == IF i <= Len(s) /\ IsWS(s[i]) THEN SkipWS(s, i + 1) ELSE i

\* Position of the quote closing the string that opens at s[i], 0 when the
\* string is not closed or holds a control character or a backslash
\* (escape sequences are not decoded here; no input uses one).
RECURSIVE CloseQuote(_, _)
CloseQuote(s, j) ==
  IF j > Len(s) THEN 0
  ELSE IF s[j] = "\"" THEN j
  ELSE IF s[j] \in {"\\", "\t", "\n", "\r", "NP"} THEN 0
  ELSE CloseQuote(s, j + 1)

LiteralAt(s, i, lit) == i + Len(lit) - 1 <= Len(s) /\ SubSeq(s, i, i + Len(lit) - 1) = lit

RECURSIVE SkipDigits(_, _)
SkipDigits(s, i) == IF i <= Len(s) /\ IsDigit(s[i]) THEN SkipDigits(s, i + 1) ELSE i

FieldOf(name) ==
  IF \E i \in 1..Len(PublicKeyJWKFields) : PublicKeyJWKFields[i].name = name
  THEN PublicKeyJWKFields[CHOOSE i \in 1..Len(PublicKeyJWKFields) :
                            PublicKeyJWKFields[i].name = name].f
  ELSE "-"

\* One value at s[i]: kind "string" with its text, "null", "other" (a
\* boolean or a number), or "bad"; next is the position after the value.
ValueAt(s, i) ==
  IF i > Len(s) THEN [kind |-> "bad", val |-> <<>>, next |-> i]
  ELSE IF s[i] = "\"" THEN
    LET c == CloseQuote(s, i + 1) IN
    IF c = 0 THEN [kind |-> "bad", val |-> <<>>, next |-> i]
    ELSE [kind |-> "string", val |-> SubSeq(s, i + 1, c - 1), next |-> c + 1]
  ELSE IF LiteralAt(s, i, <<"n", "u", "l", "l">>) THEN [kind |-> "null", val |-> <<>>, next |-> i + 4]
  ELSE IF LiteralAt(s, i, <<"t", "r", "u", "e">>) THEN [kind |-> "other", val |-> <<>>, next |-> i + 4]
  ELSE IF LiteralAt(s, i, <<"f", "a", "l", "s", "e">>) THEN [kind |-> "other", val |-> <<>>, next |-> i + 5]
  ELSE IF IsDigit(s[i]) THEN [kind |-> "other", val |-> <<>>, next |-> SkipDigits(s, i)]
  ELSE [kind |-> "bad", val |-> <<>>, next |-> i]

\* The members of an object, s[i] being the first position after '{' or
\* ','.  A string stored into a field replaces it (the last of repeated
\* members wins), null leaves the field alone, a boolean or number for a
\* string field is a type error, a member the struct does not have is
\* skipped, and only white space may follow the closing brace.
RECURSIVE UnmarshalMembers(_, _, _)
UnmarshalMembers(s, i, acc) ==
  LET kpos == SkipWS(s, i)
      kv   == ValueAt(s, kpos)
      cpos == SkipWS(s, kv.next)
      vpos == SkipWS(s, cpos + 1)
      vv   == ValueAt(s, vpos)
      f    == FieldOf(kv.val)
      epos == SkipWS(s, vv.next)
  IN
  IF kv.kind # "string" THEN [val |-> ZeroJWK, err |-> <<"invalid character">>]
  ELSE IF cpos > Len(s) \/ s[cpos] # ":" THEN [val |-> ZeroJWK, err |-> <<"invalid character">>]
  ELSE IF vv.kind = "bad" THEN [val |-> ZeroJWK, err |-> <<"invalid character">>]
  ELSE IF vv.kind = "other" /\ f # "-" THEN [val |-> ZeroJWK, err |-> <<"cannot unmarshal into string">>]
  ELSE IF epos > Len(s) THEN [val |-> ZeroJWK, err |-> <<"unexpected end of JSON input">>]
  ELSE
    LET acc2 == IF vv.kind = "string" /\ f # "-" THEN [acc EXCEPT ![f] = vv.val] ELSE acc IN
    IF s[epos] = "," THEN UnmarshalMembers(s, epos + 1, acc2)
    ELSE IF s[epos] = "}" THEN
      IF SkipWS(s, epos + 1) > Len(s) THEN [val |-> acc2, err |-> <<>>]
      ELSE [val |-> ZeroJWK, err |-> <<"invalid character">>]
    ELSE [val |-> ZeroJWK, err |-> <<"invalid character">>]

\* json.Unmarshal(data, &pubKeyJWK) for a struct of string fields: empty
\* input is an error, null leaves the struct at its zero value, an object
\* fills the fields it names (none of them is required), and any other
\* value is an error.
Unmarshal(bs) ==
  LET s == Chars(bs)
      i == SkipWS(s, 1)
  IN
  IF i > Len(s) THEN [val |-> ZeroJWK, err |-> <<"unexpected end of JSON input">>]
  ELSE IF LiteralAt(s, i, <<"n", "u", "l", "l">>) THEN
    IF SkipWS(s, i + 4) > Len(s) THEN [val |-> ZeroJWK, err |-> <<>>]
    ELSE [val |-> ZeroJWK, err |-> <<"invalid character">>]
  ELSE IF s[i] = "{" THEN
    LET j == SkipWS(s, i + 1) IN
    IF j <= Len(s) /\ s[j] = "}" THEN
      IF SkipWS(s, j + 1) > Len(s) THEN [val |-> ZeroJWK, err |-> <<>>]
      ELSE [val |-> ZeroJWK, err |-> <<"invalid character">>]
    ELSE UnmarshalMembers(s, i + 1, ZeroJWK)
  ELSE [val |-> ZeroJWK, err |-> <<"invalid character">>]

----------------------------------------------------------------------------
(* src/did/jwk.go *)

JWKPrefix == <<"d", "i", "d", ":", "j", "w", "k">>

JWS2020Context == "https://w3id.org/security/suites/jws-2020/v1"

KnownDIDContext == "https://www.w3.org/ns/did/v1"

JSONWebKey2020Type == "JsonWebKey2020"

\* errors.Wrap(err, msg)
Wrap(err, msg) == <<msg>> \o err

NilDocument ==
  [nil |-> TRUE, Context |-> <<>>, ID |-> <<>>, VerificationMethod |-> <<>>,
   Authentication |-> <<>>, AssertionMethod |-> <<>>, KeyAgreement |-> <<>>,
   CapabilityInvocation |-> <<>>, CapabilityDelegation |-> <<>>]

NilDID == [nil |-> TRUE, s |-> <<>>]

NilResult == [nil |-> TRUE, Document |-> NilDocument]

NilPrivateKey == [nil |-> TRUE, kt |-> "", m |-> <<>>]

NilPublicKey == [nil |-> TRUE, kt |-> "", m |-> <<>>]

NilKey == [kind |-> "nil"] @@ ZeroJWK

\* A faulty variant of Suffix: the prefix is cut without its colon.
SuffixNoColon(d) ==
  LET c == CutPrefix(d, JWKPrefix) IN
  IF c.found THEN [suffix |-> c.after, err |-> <<>>]
  ELSE [suffix |-> <<>>, err |-> <<"invalid did:jwk">>]

Suffix(d) ==
  LET c == CutPrefix(d, JWKPrefix \o <<":">>) IN
  IF c.found THEN [suffix |-> c.after, err |-> <<>>]
  ELSE [suffix |-> <<>>, err |-> <<"invalid did:jwk">>]

\* A faulty variant of CreateDIDJWK: the payload is encoded with padding.
CreateDIDJWKPadded(publicKeyJWK) ==
  LET m == Marshal(publicKeyJWK) IN
  IF m.err # <<>> THEN [did |-> NilDID, err |-> Wrap(m.err, "marshalling public key JWK")]
  ELSE [did |-> [nil |-> FALSE,
                 s |-> JWKPrefix \o <<":">> \o EncodeToStringPadded(Bytes(Chars(m.bytes)))],
        err |-> <<>>]

CreateDIDJWK(publicKeyJWK) ==
  LET m == Marshal(publicKeyJWK) IN
  IF m.err # <<>> THEN [did |-> NilDID, err |-> Wrap(m.err, "marshalling public key JWK")]
  ELSE [did |-> [nil |-> FALSE,
                 s |-> JWKPrefix \o <<":">> \o EncodeToString(Bytes(Chars(m.bytes)))],
        err |-> <<>>]

keyReference == <<"#", "0">>

\* A faulty variant of Document: the two contexts are listed in the other order.
DocumentSwapped(id, keyID, jwk) ==
  [nil |-> FALSE,
   Context |-> <<JWS2020Context, KnownDIDContext>>,
   ID |-> id,
   VerificationMethod |->
     << [ID |-> keyID, Type |-> JSONWebKey2020Type, Controller |-> id, PublicKeyJWK |-> jwk] >>,
   Authentication |-> <<keyID>>,
   AssertionMethod |-> <<keyID>>,
   KeyAgreement |-> <<keyID>>,
   CapabilityInvocation |-> <<keyID>>,
   CapabilityDelegation |-> <<keyID>>]

\* The composite literal of Expand: all five relations hold the key id.
Document(id, keyID, jwk) ==
  [nil |-> FALSE,
   Context |-> <<KnownDIDContext, JWS2020Context>>,
   ID |-> id,
   VerificationMethod |->
     << [ID |-> keyID, Type |-> JSONWebKey2020Type, Controller |-> id, PublicKeyJWK |-> jwk] >>,
   Authentication |-> <<keyID>>,
   AssertionMethod |-> <<keyID>>,
   KeyAgreement |-> <<keyID>>,
   CapabilityInvocation |-> <<keyID>>,
   CapabilityDelegation |-> <<keyID>>]

\* A faulty variant of ApplyUse: "enc" also keeps the authentication relation.
ApplyUseKeepAuth(doc, use) ==
  IF use = <<"s", "i", "g">> THEN [doc EXCEPT !.KeyAgreement = <<>>]
  ELSE IF use = <<"e", "n", "c">> THEN
    [doc EXCEPT !.AssertionMethod = <<>>,
                !.CapabilityInvocation = <<>>, !.CapabilityDelegation = <<>>]
  ELSE doc

\* switch pubKeyJWK.Use
ApplyUse(doc, use) ==
  IF use = <<"s", "i", "g">> THEN [doc EXCEPT !.KeyAgreement = <<>>]
  ELSE IF use = <<"e", "n", "c">> THEN
    [doc EXCEPT !.Authentication = <<>>, !.AssertionMethod = <<>>,
                !.CapabilityInvocation = <<>>, !.CapabilityDelegation = <<>>]
  ELSE doc

Expand(d) ==
  LET id  == d
      suf == Suffix(d)
      dec == DecodeString(suf.suffix)
      um  == Unmarshal(dec.bytes)
      keyID == id \o keyReference
  IN
  IF ~HasPrefix(id, JWKPrefix)
  THEN [doc |-> NilDocument, err |-> <<"not a did:jwk DID, invalid prefix">>]
  ELSE IF suf.err # <<>> THEN [doc |-> NilDocument, err |-> Wrap(suf.err, "reading suffix")]
  ELSE IF dec.err # <<>> THEN [doc |-> NilDocument, err |-> Wrap(dec.err, "decoding did:jwk")]
  ELSE IF um.err # <<>> THEN [doc |-> NilDocument, err |-> Wrap(um.err, "unmarshalling did:jwk")]
  ELSE [doc |-> ApplyUse(Document(id, keyID, um.val), um.val.use), err |-> <<>>]

IsValid(d) == Expand(d).err = <<>>

\* crypto.KeyType values: the seven did:jwk supports and three it does not.
GetSupportedDIDJWKTypes ==
  <<"Ed25519", "X25519", "secp256k1", "P-256", "P-384", "P-521", "RSA">>

KeyTypes ==
  {"Ed25519", "X25519", "secp256k1", "P-256", "P-384", "P-521", "RSA",
   "Dilithium2", "BLS12381G2", ""}

\* A faulty variant of isSupportedJWKType: the loop stops before the last type.
isSupportedJWKTypeShort(k) ==
  \E i \in 1..(Len(GetSupportedDIDJWKTypes) - 1) : GetSupportedDIDJWKTypes[i] = k

isSupportedJWKType(k) ==
  \E i \in 1..Len(GetSupportedDIDJWKTypes) : GetSupportedDIDJWKTypes[i] = k

\* A faulty variant of Resolve: the document is handed back along with the error.
ResolveLeaky(did) ==
  LET e == Expand(did) IN
  IF e.err # <<>>
  THEN [res |-> [nil |-> FALSE, Document |-> e.doc], err |-> Wrap(e.err, "expanding did:jwk")]
  ELSE [res |-> [nil |-> FALSE, Document |-> e.doc], err |-> <<>>]

Resolve(did) ==
  LET e == Expand(did) IN
  IF e.err # <<>> THEN [res |-> NilResult, err |-> Wrap(e.err, "expanding did:jwk")]
  ELSE [res |-> [nil |-> FALSE, Document |-> e.doc], err |-> <<>>]

----------------------------------------------------------------------------
(* Collaborators of GenerateDIDJWK *)

\* The text of one key coordinate, a base64url string.
Material(i) == <<B64Char(i), B64Char((7 * i) % 64), "Q">>

\* crypto.GenerateKeyByKeyType: a key pair of the type asked for, or an
\* error when the type is unknown or the random source fails.
GenerateKeyByKeyType(k, m, randOK) ==
  IF ~randOK \/ k \notin {"Ed25519", "X25519", "secp256k1", "P-256", "P-384", "P-521", "RSA"}
  THEN [pub |-> NilPublicKey, priv |-> NilPrivateKey, err |-> <<"generating key">>]
  ELSE [pub |-> [nil |-> FALSE, kt |-> k, m |-> m],
        priv |-> [nil |-> FALSE, kt |-> k, m |-> m],
        err |-> <<>>]

\* jwx.PublicKeyToJWK: the JWK of a public key, without a use member.
PublicKeyToJWK(pub) ==
  LET okp(crv) == [ZeroJWK EXCEPT !.kty = <<"O", "K", "P">>, !.crv = crv, !.x = Material(pub.m[1])]
      ec(crv)  == [ZeroJWK EXCEPT !.kty = <<"E", "C">>, !.crv = crv,
                                  !.x = Material(pub.m[1]), !.y = Material(pub.m[2])]
      rsa      == [ZeroJWK EXCEPT !.kty = <<"R", "S", "A">>,
                                  !.n = Material(pub.m[1]), !.e = <<"A", "Q", "A", "B">>]
      ok(j)    == [jwk |-> [kind |-> "key"] @@ j, err |-> <<>>]
  IN
  IF pub.kt = "Ed25519" THEN ok(okp(<<"E", "d", "2", "5", "5", "1", "9">>))
  ELSE IF pub.kt = "X25519" THEN ok(okp(<<"X", "2", "5", "5", "1", "9">>))
  ELSE IF pub.kt = "secp256k1" THEN ok(ec(<<"s", "e", "c", "p", "2", "5", "6", "k", "1">>))
  ELSE IF pub.kt = "P-256" THEN ok(ec(<<"P", "-", "2", "5", "6">>))
  ELSE IF pub.kt = "P-384" THEN ok(ec(<<"P", "-", "3", "8", "4">>))
  ELSE IF pub.kt = "P-521" THEN ok(ec(<<"P", "-", "5", "2", "1">>))
  ELSE IF pub.kt = "RSA" THEN ok(rsa)
  ELSE [jwk |-> NilKey, err |-> <<"unsupported public key type">>]

----------------------------------------------------------------------------
(* Inputs *)

MaterialChoices == [1..2 -> 1..NumMaterial]

\* The use member a caller may have set on a key: none, the two the
\* expansion knows, and one it does not.
UseValues == {<<>>, <<"s", "i", "g">>, <<"e", "n", "c">>, <<"S", "I", "G">>}

\* The public-key objects of the seven supported types.
ValidKeys ==
  { [PublicKeyToJWK([nil |-> FALSE, kt |-> GetSupportedDIDJWKTypes[i], m |-> m]).jwk
       EXCEPT !.use = u] :
      i \in 1..Len(GetSupportedDIDJWKTypes), m \in MaterialChoices, u \in UseValues }

NoKey == [kind |-> "none"] @@ ZeroJWK

BadKey == [kind |-> "bad"] @@ ZeroJWK

KeyArguments == ValidKeys \cup {NilKey, BadKey}

FuzzAlphabet == {"e", "3", "0", "="}

FuzzPayloads == UNION {[1..n -> FuzzAlphabet] : n \in 0..MaxFuzzLen}

PayloadTexts ==
  { <<"{", "\"", "u", "s", "e", "\"", ":", "\"", "s", "i", "g", "\"", "}">>,
    <<"{", "\"", "k", "t", "y", "\"", ":", "\"", "O", "K", "P", "\"", ",", "\"", "f", "o", "o", "\"", ":", "\"", "b", "a", "r", "\"", "}">>,
    <<"{", "\"", "k", "t", "y", "\"", ":", "1", "}">>,
    <<"{", "\"", "k", "t", "y", "\"", ":", "\"", "O", "K", "P", "\"">>,
    <<" ", "{", "\"", "k", "t", "y", "\"", " ", ":", " ", "\"", "O", "K", "P", "\"", " ", "}", " ">>,
    <<"{", "\"", "k", "t", "y", "\"", ":", "n", "u", "l", "l", ",", "\"", "z", "z", "\"", ":", "t", "r", "u", "e", "}">>,
    <<"{", "\"", "u", "s", "e", "\"", ":", "\"", "e", "n", "c", "\"", ",", "\"", "u", "s", "e", "\"", ":", "\"", "s", "i", "g", "\"", "}">>,
    <<"[", "]">>,
    <<"\"", "a", "b", "c", "\"">>,
    <<"{", "\"", "k", "t", "y", "\"", ":", "\"", "O", "K", "P", "\"", ",", "}">>,
    <<"{", "}", "x">>,
    <<"n", "u", "l", "l">> }

\* The strings a caller hands to Expand, Suffix, IsValid and Resolve.
TestIds ==
  { <<>>,
    <<"n", "o", "t", "-", "t", "h", "e", "-", "p", "r", "e", "f", "i", "x", ":", "a", "b", "c">>,
    JWKPrefix,
    <<"d", "i", "d", ":", "j", "w", "k", "X">>,
    <<"d", "i", "d", ":", "j", "w", "k", ";", "e", "3", "0">>,
    <<"d", "i", "d", ":", "k", "e", "y", ":", "e", "3", "0">>,
    <<"D", "I", "D", ":", "J", "W", "K", ":", "e", "3", "0">>,
    <<"d", "i", "d", ":", "j", "w">>,
    JWKPrefix \o <<":", "e", "3", "\n", "0">>,
    JWKPrefix \o <<":", "e", "3", "0", "A", "B">> }
  \cup { JWKPrefix \o <<":">> \o p : p \in FuzzPayloads }
  \cup { JWKPrefix \o <<":">> \o EncodeToString(Bytes(t)) : t \in PayloadTexts }

\* The functions below tabulate CreateDIDJWK, Expand, Suffix and Resolve
\* over the arguments the calls are made with.
CreateDIDJWKOf == [k \in KeyArguments |-> CreateDIDJWK(k)]

Ids == TestIds \cup {CreateDIDJWKOf[k].did.s : k \in KeyArguments}

ExpandOf == [d \in Ids |-> Expand(d)]

SuffixOf == [d \in Ids |-> Suffix(d)]

IsValidOf == [d \in Ids |-> IsValid(d)]

ResolveOf == [d \in Ids |-> Resolve(d)]

----------------------------------------------------------------------------
(* The calls *)

NoRet ==
  [err |-> <<>>, doc |-> NilDocument, res |-> NilResult, did |-> NilDID,
   priv |-> NilPrivateKey, str |-> <<>>, ok |-> FALSE]

Init ==
  /\ pc = "idle"
  /\ op = "none"
  /\ cur = <<>>
  /\ key = NoKey
  /\ ret = NoRet
  /\ kt = ""
  /\ pubKey = NilPublicKey
  /\ privKey = NilPrivateKey
  /\ pubKeyJWK = NoKey
  /\ invoked = <<>>

genLocals == <<pubKey, privKey, pubKeyJWK>>

\* A caller converts a string of its own to a DIDJWK.
NewDIDJWK(s) ==
  /\ pc = "idle"
  /\ op' = "DIDJWK"
  /\ cur' = s
  /\ key' = NoKey
  /\ ret' = NoRet
  /\ invoked' = <<>>
  /\ kt' = ""
  /\ UNCHANGED <<pc, genLocals>>

CallCreateDIDJWK(k) ==
  /\ pc = "idle"
  /\ op' = "CreateDIDJWK"
  /\ LET r == CreateDIDJWKOf[k] IN
       /\ ret' = [NoRet EXCEPT !.did = r.did, !.err = r.err]
       /\ cur' = IF r.err = <<>> THEN r.did.s ELSE <<>>
  /\ key' = k
  /\ invoked' = <<>>
  /\ kt' = ""
  /\ UNCHANGED <<pc, genLocals>>

CallExpand ==
  /\ pc = "idle"
  /\ op' = "Expand"
  /\ LET r == ExpandOf[cur] IN ret' = [NoRet EXCEPT !.doc = r.doc, !.err = r.err]
  /\ invoked' = <<>>
  /\ kt' = ""
  /\ UNCHANGED <<pc, cur, key, genLocals>>

CallIsValid ==
  /\ pc = "idle"
  /\ op' = "IsValid"
  /\ ret' = [NoRet EXCEPT !.ok = IsValidOf[cur]]
  /\ invoked' = <<>>
  /\ kt' = ""
  /\ UNCHANGED <<pc, cur, key, genLocals>>

CallSuffix ==
  /\ pc = "idle"
  /\ op' = "Suffix"
  /\ LET r == SuffixOf[cur] IN ret' = [NoRet EXCEPT !.str = r.suffix, !.err = r.err]
  /\ invoked' = <<>>
  /\ kt' = ""
  /\ UNCHANGED <<pc, cur, key, genLocals>>

CallResolve ==
  /\ pc = "idle"
  /\ op' = "Resolve"
  /\ LET r == ResolveOf[cur] IN ret' = [NoRet EXCEPT !.res = r.res, !.err = r.err]
  /\ invoked' = <<>>
  /\ kt' = ""
  /\ UNCHANGED <<pc, cur, key, genLocals>>

\* GenerateDIDJWK is entered with a key type.
CallGenerateDIDJWK(k) ==
  /\ pc = "idle"
  /\ pc' = "gate"
  /\ op' = "GenerateDIDJWK"
  /\ kt' = k
  /\ cur' = <<>>
  /\ key' = NoKey
  /\ ret' = NoRet
  /\ invoked' = <<>>
  /\ UNCHANGED <<pubKey, privKey, pubKeyJWK>>

\* return from GenerateDIDJWK: the locals go with the frame.
GenReturn(priv, did, err) ==
  /\ pc' = "idle"
  /\ ret' = [NoRet EXCEPT !.priv = priv, !.did = did, !.err = err]
  /\ pubKey' = NilPublicKey
  /\ privKey' = NilPrivateKey
  /\ pubKeyJWK' = NoKey
  /\ UNCHANGED <<op, kt>>

GenGate ==
  /\ pc = "gate"
  /\ IF ~isSupportedJWKType(kt)
     THEN GenReturn(NilPrivateKey, NilDID, <<"unsupported did:jwk type">>)
     ELSE /\ pc' = "genkey"
          /\ UNCHANGED <<op, ret, kt, genLocals>>
  /\ UNCHANGED <<cur, key, invoked>>

GenKey ==
  /\ pc = "genkey"
  /\ invoked' = Append(invoked, "GenerateKeyByKeyType")
  /\ \E m \in MaterialChoices, randOK \in BOOLEAN :
       LET r == GenerateKeyByKeyType(kt, m, randOK) IN
       IF r.err # <<>>
       THEN GenReturn(NilPrivateKey, NilDID, Wrap(r.err, "generating key for did:jwk"))
       ELSE /\ pc' = "tojwk"
            /\ pubKey' = r.pub
            /\ privKey' = r.priv
            /\ UNCHANGED <<op, ret, kt, pubKeyJWK>>
  /\ UNCHANGED <<cur, key>>

GenToJWK ==
  /\ pc = "tojwk"
  /\ invoked' = Append(invoked, "PublicKeyToJWK")
  /\ LET r == PublicKeyToJWK(pubKey) IN
       IF r.err # <<>>
       THEN GenReturn(NilPrivateKey, NilDID, Wrap(r.err, "converting public key to JWK"))
       ELSE /\ pc' = "create"
            /\ pubKeyJWK' = r.jwk
            /\ UNCHANGED <<op, ret, kt, pubKey, privKey>>
  /\ UNCHANGED <<cur, key>>

GenCreate ==
  /\ pc = "create"
  /\ invoked' = Append(invoked, "CreateDIDJWK")
  /\ LET r == CreateDIDJWKOf[pubKeyJWK] IN
       IF r.err # <<>>
       THEN /\ GenReturn(NilPrivateKey, NilDID, Wrap(r.err, "creating did:jwk"))
            /\ UNCHANGED <<cur, key>>
       ELSE /\ GenReturn(privKey, r.did, <<>>)
            /\ cur' = r.did.s
            /\ key' = pubKeyJWK

Next ==
  \/ \E s \in TestIds : NewDIDJWK(s)
  \/ \E k \in KeyArguments : CallCreateDIDJWK(k)
  \/ CallExpand
  \/ CallIsValid
  \/ CallSuffix
  \/ CallResolve
  \/ \E k \in KeyTypes : CallGenerateDIDJWK(k)
  \/ GenGate
  \/ GenKey
  \/ GenToJWK
  \/ GenCreate

Spec == Init /\ [][Next]_vars

----------------------------------------------------------------------------
(* Properties *)

DIDJWKColon == <<"d", "i", "d", ":", "j", "w", "k", ":">>

KeyRef0(d) == d \o <<"#", "0">>

JWKOf(k) == [f \in DOMAIN ZeroJWK |-> k[f]]

Returned == pc = "idle"

\* C1: a valid public-key object given to CreateDIDJWK yields an
\* identifier, and Expand of that identifier succeeds with a document whose
\* single verification method carries a public key equal to the object.
C1_RoundTrip ==
  /\ (op = "CreateDIDJWK" /\ key.kind = "key") => (ret.err = <<>> /\ ~ret.did.nil)
  /\ (op = "Expand" /\ key.kind = "key") =>
       /\ ret.err = <<>>
       /\ ~ret.doc.nil
       /\ Len(ret.doc.VerificationMethod) = 1
       /\ ret.doc.VerificationMethod[1].PublicKeyJWK = JWKOf(key)

C1_Witness ==
  /\ op = "Expand"
  /\ key.kind = "key"
  /\ key.kty = <<"R", "S", "A">>
  /\ key.use = <<"s", "i", "g">>
  /\ ret.err = <<>>
  /\ ret.doc.VerificationMethod[1].PublicKeyJWK.n = key.n

\* C2: after a successful Expand, a decoded use of exactly "sig" leaves no
\* key-agreement list and one entry <id>#0 in each of the other four
\* lists; exactly "enc" leaves only key-agreement, with the one entry
\* <id>#0; any other use, or none, leaves all five lists with that entry.
C2_UseSuppression ==
  (op = "Expand" /\ ret.err = <<>>) =>
    LET use == ret.doc.VerificationMethod[1].PublicKeyJWK.use
        one == <<KeyRef0(cur)>>
        d   == ret.doc
    IN
    IF use = <<"s", "i", "g">> THEN
      /\ d.KeyAgreement = <<>>
      /\ d.Authentication = one /\ d.AssertionMethod = one
      /\ d.CapabilityInvocation = one /\ d.CapabilityDelegation = one
    ELSE IF use = <<"e", "n", "c">> THEN
      /\ d.KeyAgreement = one
      /\ d.Authentication = <<>> /\ d.AssertionMethod = <<>>
      /\ d.CapabilityInvocation = <<>> /\ d.CapabilityDelegation = <<>>
    ELSE
      /\ d.KeyAgreement = one
      /\ d.Authentication = one /\ d.AssertionMethod = one
      /\ d.CapabilityInvocation = one /\ d.CapabilityDelegation = one

C2_Witness ==
  /\ op = "Expand"
  /\ ret.err = <<>>
  /\ ret.doc.VerificationMethod[1].PublicKeyJWK.use = <<"e", "n", "c">>
  /\ ret.doc.Authentication = <<>>
  /\ ret.doc.KeyAgreement = <<KeyRef0(cur)>>

\* C3: Expand and Suffix return an error for every string that does not
\* start with "did:jwk:".
C3_PrefixRejection ==
  (op \in {"Expand", "Suffix"} /\ ~HasPrefix(cur, DIDJWKColon)) => ret.err # <<>>

C3_Witness ==
  /\ op = "Suffix"
  /\ cur = <<"d", "i", "d", ":", "j", "w", "k", "X">>
  /\ ret.err # <<>>

\* The payload is base64url text the raw decoder takes: alphabet
\* characters only, line breaks aside, and not one character over a
\* multiple of four.
WellFormedPayload(p) ==
  LET t == SelectSeq(p, LAMBDA c : c \notin {"\r", "\n"}) IN
  /\ \A i \in 1..Len(t) : t[i] \in {encodeURL[j] : j \in 1..64}
  /\ Len(t) % 4 # 1

PayloadOf(d) == SubSeq(d, Len(DIDJWKColon) + 1, Len(d))

\* The gate of the claim that an error message of Expand stands for.
GateOfError(msg) ==
  IF msg = "not a did:jwk DID, invalid prefix" THEN "prefix"
  ELSE IF msg = "reading suffix" THEN "prefix"
  ELSE IF msg = "decoding did:jwk" THEN "base64"
  ELSE IF msg = "unmarshalling did:jwk" THEN "json"
  ELSE "unknown"

AllowList == {"Ed25519", "X25519", "secp256k1", "P-256", "P-384", "P-521", "RSA"}

\* C5: GenerateDIDJWK with a key type outside the allow-list returns a nil
\* private key, a nil identifier and an error, and no collaborator has
\* been invoked by then; with a key type in the allow-list the gate never
\* rejects.
C5_UnsupportedRejected ==
  op = "GenerateDIDJWK" =>
    IF kt \in AllowList
    THEN Returned => (ret.err = <<>> \/ ret.err[1] # "unsupported did:jwk type")
    ELSE /\ invoked = <<>>
         /\ pc \in {"gate", "idle"}
         /\ Returned => (ret.priv.nil /\ ret.did.nil /\ ret.err # <<>>)

C5_Witness ==
  /\ op = "GenerateDIDJWK"
  /\ kt = "Dilithium2"
  /\ Returned
  /\ ret.err = <<"unsupported did:jwk type">>
  /\ invoked = <<>>

\* C6: a document Expand returns has the input string as id, exactly one
\* verification method with id <input>#0, controller <input> and type
\* JsonWebKey2020, and the contexts [DID context, JWS-2020 context].
C6_DocumentShape ==
  (op = "Expand" /\ ret.err = <<>>) =>
    /\ ~ret.doc.nil
    /\ ret.doc.ID = cur
    /\ Len(ret.doc.VerificationMethod) = 1
    /\ ret.doc.VerificationMethod[1].ID = KeyRef0(cur)
    /\ ret.doc.VerificationMethod[1].Controller = cur
    /\ ret.doc.VerificationMethod[1].Type = "JsonWebKey2020"
    /\ ret.doc.Context =
         <<"https://www.w3.org/ns/did/v1", "https://w3id.org/security/suites/jws-2020/v1">>

C6_Witness ==
  /\ op = "Expand"
  /\ ret.err = <<>>
  /\ key.kind = "key"
  /\ key.crv = <<"E", "d", "2", "5", "5", "1", "9">>
  /\ ret.doc.ID = cur
  /\ Len(cur) > Len(DIDJWKColon)

\* C7: Resolve returns a result holding the document of Expand and no
\* error when Expand succeeds, and a nil result with an error when Expand
\* fails; never a result together with an error.
C7_ResolverContract ==
  op = "Resolve" =>
    LET e == Expand(cur) IN
    /\ (e.err = <<>>) => (ret.err = <<>> /\ ~ret.res.nil /\ ret.res.Document = e.doc)
    /\ (e.err # <<>>) => (ret.err # <<>> /\ ret.res.nil)
    /\ ~(ret.err # <<>> /\ ~ret.res.nil)

C7_Witness ==
  /\ op = "Resolve"
  /\ cur = <<"n", "o", "t", "-", "t", "h", "e", "-", "p", "r", "e", "f", "i", "x", ":", "a", "b", "c">>
  /\ ret.res.nil
  /\ ret.err # <<>>

\* A complete public-key object names its key type and carries key
\* material.
Complete(jwk) == jwk.kty # <<>> /\ (jwk.x # <<>> \/ jwk.n # <<>>)

\* C9: Expand and IsValid accept an identifier only if its payload
\* deserializes into a complete public-key object.
C9_PayloadValidity ==
  /\ (op = "Expand" /\ ret.err = <<>>) =>
       Complete(ret.doc.VerificationMethod[1].PublicKeyJWK)
  /\ (op = "IsValid" /\ ret.ok) =>
       Complete(Unmarshal(DecodeString(PayloadOf(cur)).bytes).val)

\* C10: an identifier that GenerateDIDJWK or CreateDIDJWK returns without
\* error is "did:jwk:" followed by a non-empty base64url payload without
\* padding, Suffix succeeds on it and IsValid holds of it; and IsValid
\* returns true exactly when Expand returns no error.
C10_GeneratedValid ==
  /\ (op \in {"GenerateDIDJWK", "CreateDIDJWK"} /\ Returned /\ ret.err = <<>>) =>
       /\ ~ret.did.nil
       /\ HasPrefix(ret.did.s, DIDJWKColon)
       /\ PayloadOf(ret.did.s) # <<>>
       /\ \A i \in 1..Len(PayloadOf(ret.did.s)) :
            PayloadOf(ret.did.s)[i] \in {encodeURL[j] : j \in 1..64}
       /\ Suffix(ret.did.s) = [suffix |-> PayloadOf(ret.did.s), err |-> <<>>]
       /\ IsValid(ret.did.s)
       /\ cur = ret.did.s
  /\ (op = "Suffix" /\ key.kind \in {"key", "nil"}) => ret.err = <<>>
  /\ (op = "IsValid" /\ key.kind \in {"key", "nil"}) => ret.ok
  /\ op = "IsValid" => (ret.ok <=> Expand(cur).err = <<>>)

C10_Witness ==
  /\ op = "GenerateDIDJWK"
  /\ Returned
  /\ ret.err = <<>>
  /\ kt = "P-256"
  /\ ~ret.priv.nil
  /\ HasPrefix(ret.did.s, DIDJWKColon)

====
